---------------------------- MODULE Spec2Model ----------------------------
(***************************************************************************)
(* Control-flow model of the voice assistant: main / run_assistant         *)
(* (main.py), record_audio (audio_input.py), transcribe_audio              *)
(* (whisper_stt.py), process_with_ollama (ollama_process.py) and           *)
(* text_to_speech / _tts_piper / _tts_espeak / play_audio (tts.py).        *)
(*                                                                         *)
(* Every external program run and every HTTP request is one step whose     *)
(* outcome is chosen by the environment.  The interrupt signal (Ctrl+C,    *)
(* KeyboardInterrupt) is a step of the environment that can be taken at    *)
(* any control position of the running program.                            *)
(***************************************************************************)
EXTENDS Integers, Sequences, FiniteSets, TLC

VARIABLES
    pc,          \* control position of the single thread
    continuous,  \* args.continuous
    engine,      \* config["tts"]["engine"]
    cycles,      \* number of run_assistant calls started (saturating)
    lastEnd,     \* how the most recent run_assistant call ended
    calls,       \* external programs / HTTP requests of the current cycle, in order
    printed,     \* messages printed in the current cycle (and the farewell)
    exeFound,    \* result of whisper_executable.exists() in the current cycle
    transcript,  \* value returned by transcribe_audio
    response,    \* value returned by process_with_ollama
    player,      \* index of play_audio's for loop
    txtFile,     \* the piper temporary text file exists
    wavFile,     \* tts_output.wav exists
    exc,         \* exception in flight
    intrAt       \* control position at which the interrupt was delivered

vars == <<pc, continuous, engine, cycles, lastEnd, calls, printed, exeFound,
          transcript, response, player, txtFile, wavFile, exc, intrAt>>

----------------------------------------------------------------------------
(* Bounds *)

\* longest raw recognizer output (text file or stdout) considered
MaxLen == 3
\* the cycle counter saturates here
MaxCycles == 2

----------------------------------------------------------------------------
(* Strings *)

Whitespace == {" ", "\n"}
Chars == Whitespace \cup {"a"}

RECURSIVE StringsUpTo(_)
StringsUpTo(n) ==
    IF n = 0 THEN {<<>>}
    ELSE LET S == StringsUpTo(n - 1)
         IN  S \cup {Append(s, c) : s \in {t \in S : Len(t) = n - 1}, c \in Chars}

\* what the recognizer may leave in its text file or on its stdout
RawOutputs == StringsUpTo(MaxLen)

RECURSIVE LStrip(_)
LStrip(s) ==
    IF s = <<>> THEN <<>>
    ELSE IF Head(s) \in Whitespace THEN LStrip(Tail(s)) ELSE s

RECURSIVE RStrip(_)
RStrip(s) ==
    IF s = <<>> THEN <<>>
    ELSE IF s[Len(s)] \in Whitespace THEN RStrip(SubSeq(s, 1, Len(s) - 1)) ELSE s

\* str.strip()
Strip(s) == RStrip(LStrip(s))

----------------------------------------------------------------------------
(* Exceptions *)

NoExc == [type |-> "none", origin |-> "none"]
Raised(t, o) == [type |-> t, origin |-> o]
KeyboardInterrupt == Raised("KeyboardInterrupt", "signal")

\* subprocess.run(cmd, check=True): the program ran and exited 0, the program
\* is not installed (FileNotFoundError), or it exited non-zero
\* (CalledProcessError)
RunOutcomes == {"ok", "notfound", "error"}
ExcOf(o) == IF o = "notfound" THEN "FileNotFoundError" ELSE "CalledProcessError"

Call(t, o) == [tool |-> t, out |-> o]
Tools(cs) == {cs[i].tool : i \in DOMAIN cs}

----------------------------------------------------------------------------
(* Control positions *)

\* positions inside a run_assistant call
CyclePcs == {"arecord", "rec", "whisper_exists", "whisper", "said", "get", "post",
             "respond", "piper_text", "piper", "play_audio", "piper_finally",
             "espeak"}
\* positions inside _tts_piper's try block (tts.py 44-56)
PiperTry == {"piper", "play_audio"}
\* "loop": main between two run_assistant calls; "unwind": an exception is
\* leaving run_assistant; "exited": main returned; "crashed": an exception
\* left main uncaught
Pcs == CyclePcs \cup {"loop", "unwind", "exited", "crashed"}

InCycle == pc \in CyclePcs

\* the cycle counter is only observed, it saturates at MaxCycles
Bump(n) == IF n < MaxCycles THEN n + 1 ELSE n

Engines == {"piper", "espeak", "festival"}

Init ==
    /\ pc = "loop"
    /\ continuous \in BOOLEAN
    /\ engine \in Engines
    /\ cycles = 0
    /\ lastEnd = "none"
    /\ calls = <<>>
    /\ printed = {}
    /\ exeFound = "unchecked"
    /\ transcript = <<>>
    /\ response = "none"
    /\ player = 1
    /\ txtFile = FALSE
    /\ wavFile = FALSE
    /\ exc = NoExc
    /\ intrAt = "none"

----------------------------------------------------------------------------
(* main.py *)

\* where control goes when run_assistant returns: the while True loop of
\* continuous mode calls it again, single-shot mode ends
ReturnTarget == IF continuous THEN "loop" ELSE "exited"

\* run_assistant returns normally
Return(kind) ==
    /\ pc' = ReturnTarget
    /\ lastEnd' = kind

\* an exception leaves run_assistant (no handler in run_assistant)
Propagate(e) ==
    /\ pc' = "unwind"
    /\ exc' = e
    /\ lastEnd' = "raised"

\* main 52-60 and run_assistant 64: the next run_assistant call starts
StartCycle ==
    /\ pc = "loop"
    /\ continuous \/ cycles = 0
    /\ pc' = "arecord"
    /\ cycles' = Bump(cycles)
    /\ calls' = <<>>
    /\ printed' = {"listening"}
    /\ exeFound' = "unchecked"
    /\ transcript' = <<>>
    /\ response' = "none"
    /\ player' = 1
    /\ UNCHANGED <<continuous, engine, lastEnd, txtFile, wavFile, exc, intrAt>>

\* a handler for every exception: `except BaseException`
MainCatchesAll(e) == continuous

\* main 54-58: the only handler of main is `except KeyboardInterrupt` around
\* the continuous loop
MainCatches(e) == continuous /\ e.type = "KeyboardInterrupt"

MainHandle ==
    /\ pc = "unwind"
    /\ IF MainCatches(exc)
       THEN /\ printed' = printed \cup {"farewell"}
            /\ pc' = "exited"
       ELSE /\ printed' = printed
            /\ pc' = "crashed"
    /\ UNCHANGED <<continuous, engine, cycles, lastEnd, calls, exeFound, transcript,
                   response, player, txtFile, wavFile, exc, intrAt>>

----------------------------------------------------------------------------
(* audio_input.py *)

\* only FileNotFoundError caught
RecorderCaughtNotFoundOnly(o) == o = "notfound"

\* record_audio 42 and 57: the except clauses of both try blocks
RecorderCaught(o) == o \in {"notfound", "error"}

\* record_audio 27-42: arecord
RecordPrimary(o) ==
    /\ pc = "arecord"
    /\ calls' = Append(calls, Call("arecord", o))
    /\ IF o = "ok"
       THEN /\ pc' = "whisper_exists"
            /\ printed' = printed \cup {"transcribing"}
            /\ UNCHANGED <<exc, lastEnd>>
       ELSE IF RecorderCaught(o)
       THEN /\ pc' = "rec"
            /\ UNCHANGED <<printed, exc, lastEnd>>
       ELSE /\ Propagate(Raised(ExcOf(o), "record_audio"))
            /\ UNCHANGED printed
    /\ UNCHANGED <<continuous, engine, cycles, exeFound, transcript, response,
                   player, txtFile, wavFile, intrAt>>

\* record_audio 43-61: rec
RecordSecondary(o) ==
    /\ pc = "rec"
    /\ calls' = Append(calls, Call("rec", o))
    /\ IF o = "ok"
       THEN /\ pc' = "whisper_exists"
            /\ printed' = printed \cup {"transcribing"}
            /\ UNCHANGED <<exc, lastEnd>>
       ELSE /\ Propagate(Raised(ExcOf(o), "record_audio"))
            /\ printed' = IF RecorderCaught(o)
                          THEN printed \cup {"recording_error"}
                          ELSE printed
    /\ UNCHANGED <<continuous, engine, cycles, exeFound, transcript, response,
                   player, txtFile, wavFile, intrAt>>

----------------------------------------------------------------------------
(* whisper_stt.py *)

\* the existence test left out
ExecutableMissingIgnored(exists) == FALSE

\* transcribe_audio 23: `if not whisper_executable.exists()`
ExecutableMissing(exists) == ~exists

\* transcribe_audio 21-27
TranscribeCheck(exists) ==
    /\ pc = "whisper_exists"
    /\ exeFound' = IF exists THEN "yes" ELSE "no"
    /\ IF ExecutableMissing(exists)
       THEN Propagate(Raised("FileNotFoundError", "transcribe_audio"))
       ELSE /\ pc' = "whisper"
            /\ UNCHANGED <<exc, lastEnd>>
    /\ UNCHANGED <<continuous, engine, cycles, calls, printed, transcript, response,
                   player, txtFile, wavFile, intrAt>>

\* transcribe_audio 29-64: raw is what the recognizer left in the sibling
\* text file, or on stdout when there is no such file; both are returned
\* stripped.  A non-zero exit returns "".
TranscribeRun(o, raw) ==
    /\ pc = "whisper"
    /\ calls' = Append(calls, Call("whisper", o))
    /\ IF o = "ok"
       THEN /\ transcript' = Strip(raw)
            /\ printed' = printed
       ELSE /\ transcript' = <<>>
            /\ printed' = printed \cup {"whisper_error"}
    /\ pc' = "said"
    /\ UNCHANGED <<continuous, engine, cycles, lastEnd, exeFound, response, player,
                   txtFile, wavFile, exc, intrAt>>

----------------------------------------------------------------------------
(* main.py, run_assistant after transcription *)

\* the emptiness test inverted: `if transcript.strip()`
NoSpeechInverted(t) == Strip(t) # <<>>

\* run_assistant 71: `if not transcript.strip()`
NoSpeech(t) == Strip(t) = <<>>

\* run_assistant 69-75
CheckTranscript ==
    /\ pc = "said"
    /\ IF NoSpeech(transcript)
       THEN /\ printed' = printed \cup {"you_said", "no_speech"}
            /\ Return("no_speech")
       ELSE /\ printed' = printed \cup {"you_said", "processing"}
            /\ pc' = "get"
            /\ UNCHANGED lastEnd
    /\ UNCHANGED <<continuous, engine, cycles, calls, exeFound, transcript, response,
                   player, txtFile, wavFile, exc, intrAt>>

----------------------------------------------------------------------------
(* ollama_process.py *)

ApologyConnect == "Sorry, I'm having trouble connecting to my thinking module."
ApologyError == "Sorry, I encountered an error while processing your request."
Apologies == {ApologyConnect, ApologyError}

\* outcomes of requests.get / requests.post: a response with a status code,
\* or one of the exceptions of requests.exceptions.  ConnectionError covers
\* a refused connection and a connect timeout; TooManyRedirects (a redirect
\* loop) and ChunkedEncodingError (a body cut short) are RequestExceptions
\* that are not ConnectionErrors.
RequestExceptions == {"ConnectionError", "TooManyRedirects", "ChunkedEncodingError"}
RequestOutcomes == {"200", "500"} \cup RequestExceptions

\* bodies of a 200 answer of /api/generate: a JSON object with a "response"
\* field, a JSON object without it, and a body that is not JSON
Bodies == {"hello", "no_field", "not_json"}

\* the status test left out
LivenessUpAnyStatus(o) == TRUE

\* process_with_ollama 26: the status test of the liveness request
LivenessUp(o) == o = "200"

\* process_with_ollama 29: `except requests.exceptions.ConnectionError`
LivenessCaught(o) == o = "ConnectionError"

\* process_with_ollama 24-31: GET /api/tags
Liveness(o) ==
    /\ pc = "get"
    /\ calls' = Append(calls, Call("GET", o))
    /\ IF o \in RequestExceptions
       THEN IF LivenessCaught(o)
            THEN /\ printed' = printed \cup {"ollama_not_running"}
                 /\ response' = ApologyConnect
                 /\ pc' = "respond"
                 /\ UNCHANGED <<exc, lastEnd>>
            ELSE /\ Propagate(Raised(o, "process_with_ollama"))
                 /\ UNCHANGED <<printed, response>>
       ELSE IF LivenessUp(o)
            THEN /\ pc' = "post"
                 /\ UNCHANGED <<printed, response, exc, lastEnd>>
            ELSE /\ printed' = printed \cup {"ollama_not_responding"}
                 /\ response' = ApologyConnect
                 /\ pc' = "respond"
                 /\ UNCHANGED <<exc, lastEnd>>
    /\ UNCHANGED <<continuous, engine, cycles, exeFound, transcript, player,
                   txtFile, wavFile, intrAt>>

\* process_with_ollama 48-49: response.json() and result.get("response", "")
Reply(body) == IF body = "no_field" THEN "" ELSE body

\* process_with_ollama 34-57: POST /api/generate; `except Exception` covers
\* the request and the decoding of its body
Generate(o, body) ==
    /\ pc = "post"
    /\ calls' = Append(calls, Call("POST", o))
    /\ IF o = "200" /\ body # "not_json"
       THEN /\ response' = Reply(body)
            /\ printed' = printed
       ELSE /\ response' = ApologyError
            /\ printed' = printed \cup
                  {IF o = "500" THEN "ollama_api_error" ELSE "ollama_call_error"}
    /\ pc' = "respond"
    /\ UNCHANGED <<continuous, engine, cycles, lastEnd, exeFound, transcript, player,
                   txtFile, wavFile, exc, intrAt>>

----------------------------------------------------------------------------
(* tts.py *)

\* run_assistant 77-80 and text_to_speech 17-26: dispatch on the engine
Respond ==
    /\ pc = "respond"
    /\ IF engine = "piper"
       THEN /\ pc' = "piper_text"
            /\ printed' = printed \cup {"assistant", "converting"}
            /\ UNCHANGED lastEnd
       ELSE IF engine = "espeak"
       THEN /\ pc' = "espeak"
            /\ printed' = printed \cup {"assistant", "converting"}
            /\ UNCHANGED lastEnd
       ELSE /\ printed' = printed \cup {"assistant", "converting", "unsupported_engine"}
            /\ Return("unsupported")
    /\ UNCHANGED <<continuous, engine, cycles, calls, exeFound, transcript, response,
                   player, txtFile, wavFile, exc, intrAt>>

\* _tts_piper 36-42: the temporary text file is written
PiperWriteText ==
    /\ pc = "piper_text"
    /\ txtFile' = TRUE
    /\ pc' = "piper"
    /\ UNCHANGED <<continuous, engine, cycles, lastEnd, calls, printed, exeFound,
                   transcript, response, player, wavFile, exc, intrAt>>

\* _tts_piper 57-61: `except FileNotFoundError` and
\* `except subprocess.CalledProcessError`
PiperCaught(o) == o \in {"notfound", "error"}

\* _tts_piper 44-61: piper runs; wrote says whether it left an output file
PiperRun(o, wrote) ==
    /\ pc = "piper"
    /\ calls' = Append(calls, Call("piper", o))
    /\ wavFile' = IF o = "notfound" THEN wavFile ELSE (wavFile \/ wrote)
    /\ IF o = "ok"
       THEN /\ pc' = "play_audio"
            /\ player' = 1
            /\ UNCHANGED <<printed, exc>>
       ELSE /\ pc' = "piper_finally"
            /\ player' = player
            /\ IF PiperCaught(o)
               THEN /\ printed' = printed \cup {"piper_" \o o}
                    /\ exc' = exc
               ELSE /\ printed' = printed
                    /\ exc' = Raised(ExcOf(o), "text_to_speech")
    /\ UNCHANGED <<continuous, engine, cycles, lastEnd, exeFound, transcript, response,
                   txtFile, intrAt>>

\* play_audio 95-99
Players == <<"aplay", "paplay", "play">>

\* only FileNotFoundError caught
PlayerCaughtNotFoundOnly(o) == o = "notfound"

\* play_audio 106: `except (FileNotFoundError, subprocess.CalledProcessError)`
PlayerCaught(o) == o \in {"notfound", "error"}

\* play_audio 101-109, one iteration of the for loop; an exception that
\* play_audio lets through arrives at the handlers of _tts_piper 57-61
Play(o) ==
    /\ pc = "play_audio"
    /\ calls' = Append(calls, Call(Players[player], o))
    /\ IF o = "ok"
       THEN /\ pc' = "piper_finally"
            /\ UNCHANGED <<player, printed, exc>>
       ELSE IF PlayerCaught(o)
       THEN IF player < Len(Players)
            THEN /\ player' = player + 1
                 /\ UNCHANGED <<pc, printed, exc>>
            ELSE /\ printed' = printed \cup {"no_player"}
                 /\ pc' = "piper_finally"
                 /\ UNCHANGED <<player, exc>>
       ELSE /\ pc' = "piper_finally"
            /\ player' = player
            /\ IF PiperCaught(o)
               THEN /\ printed' = printed \cup {"piper_" \o o}
                    /\ exc' = exc
               ELSE /\ printed' = printed
                    /\ exc' = Raised(ExcOf(o), "text_to_speech")
    /\ UNCHANGED <<continuous, engine, cycles, lastEnd, exeFound, transcript, response,
                   txtFile, wavFile, intrAt>>

\* the file left in place
UnlinkSkipped(f) == f

\* _tts_piper 64-66: os.unlink leaves no file
Unlinked(f) == FALSE

\* _tts_piper 62-66: the finally block, then the exception in flight (if any)
\* goes on
PiperCleanup ==
    /\ pc = "piper_finally"
    /\ txtFile' = Unlinked(txtFile)
    /\ wavFile' = Unlinked(wavFile)
    /\ IF exc = NoExc
       THEN Return("tts_returned")
       ELSE /\ pc' = "unwind"
            /\ lastEnd' = "raised"
    /\ UNCHANGED <<continuous, engine, cycles, calls, printed, exeFound, transcript,
                   response, player, exc, intrAt>>

\* only FileNotFoundError caught
EspeakCaughtNotFoundOnly(o) == o = "notfound"

\* _tts_espeak 82-86
EspeakCaught(o) == o \in {"notfound", "error"}

\* _tts_espeak 68-86
EspeakRun(o) ==
    /\ pc = "espeak"
    /\ calls' = Append(calls, Call("espeak", o))
    /\ IF o = "ok"
       THEN /\ Return("tts_returned")
            /\ UNCHANGED <<printed, exc>>
       ELSE IF EspeakCaught(o)
       THEN /\ Return("tts_returned")
            /\ printed' = printed \cup {"espeak_" \o o}
            /\ exc' = exc
       ELSE /\ Propagate(Raised(ExcOf(o), "text_to_speech"))
            /\ printed' = printed
    /\ UNCHANGED <<continuous, engine, cycles, exeFound, transcript, response,
                   player, txtFile, wavFile, intrAt>>

----------------------------------------------------------------------------
(* The interrupt signal *)

\* a bare `except:` in process_with_ollama, which would swallow the interrupt
\* and go on with the apology
InterruptTargetSwallowed(p) ==
    IF p = "post" THEN "respond"
    ELSE IF p \in PiperTry THEN "piper_finally" ELSE "unwind"

\* Where a KeyboardInterrupt raised at position p goes next: inside the try
\* block of _tts_piper the finally block runs first; everywhere else no
\* handler or finally block lies between p and main.  The `except Exception`
\* of process_with_ollama (55) does not catch it.
InterruptTarget(p) == IF p \in PiperTry THEN "piper_finally" ELSE "unwind"

\* Ctrl+C while the program is at pc.  done counts the file operations of
\* the current position that were completed before the signal arrived.
Interrupt(done) ==
    /\ pc \in CyclePcs \cup {"loop"}
    /\ intrAt = "none"
    /\ intrAt' = pc
    /\ exc' = KeyboardInterrupt
    /\ pc' = InterruptTarget(pc)
    /\ lastEnd' = IF pc = "loop" \/ InterruptTarget(pc) # "unwind" THEN lastEnd ELSE "raised"
    /\ CASE pc = "piper_text" ->
              /\ done \in 0..1
              /\ txtFile' = (txtFile \/ done = 1)
              /\ wavFile' = wavFile
         [] pc = "piper_finally" ->
              /\ done \in 0..2
              /\ txtFile' = (txtFile /\ done = 0)
              /\ wavFile' = (wavFile /\ done < 2)
         [] OTHER ->
              /\ done = 0
              /\ UNCHANGED <<txtFile, wavFile>>
    /\ UNCHANGED <<continuous, engine, cycles, calls, printed, exeFound, transcript,
                   response, player>>

----------------------------------------------------------------------------

Next ==
    \/ StartCycle
    \/ MainHandle
    \/ \E o \in RunOutcomes : RecordPrimary(o)
    \/ \E o \in RunOutcomes : RecordSecondary(o)
    \/ \E exists \in BOOLEAN : TranscribeCheck(exists)
    \/ \E o \in {"ok", "error"}, raw \in RawOutputs : TranscribeRun(o, raw)
    \/ CheckTranscript
    \/ \E o \in RequestOutcomes : Liveness(o)
    \/ \E o \in RequestOutcomes, body \in Bodies : Generate(o, body)
    \/ Respond
    \/ PiperWriteText
    \/ \E o \in RunOutcomes, wrote \in BOOLEAN : PiperRun(o, wrote)
    \/ \E o \in RunOutcomes : Play(o)
    \/ PiperCleanup
    \/ \E o \in RunOutcomes : EspeakRun(o)
    \/ \E done \in 0..2 : Interrupt(done)

Spec == Init /\ [][Next]_vars

TypeOK ==
    /\ pc \in Pcs
    /\ continuous \in BOOLEAN
    /\ engine \in Engines
    /\ cycles \in 0..MaxCycles
    /\ lastEnd \in {"none", "no_speech", "unsupported", "tts_returned", "raised"}
    /\ Tools(calls) \subseteq {"arecord", "rec", "whisper", "GET", "POST", "piper",
                               "espeak", "aplay", "paplay", "play"}
    /\ exeFound \in {"unchecked", "yes", "no"}
    /\ transcript \in RawOutputs
    /\ response \in {"none", "", "hello"} \cup Apologies
    /\ player \in 1..Len(Players)
    /\ txtFile \in BOOLEAN
    /\ wavFile \in BOOLEAN
    /\ intrAt \in CyclePcs \cup {"loop", "none"}

----------------------------------------------------------------------------
(* Properties *)

Invoked(t) == t \in Tools(calls)
Made(c) == \E i \in DOMAIN calls : calls[i] = c
Failed(o) == o \in {"notfound", "error"}
HasNonWhitespace(t) == \E i \in DOMAIN t : t[i] \notin Whitespace

GenerationTools == {"GET", "POST"}
SynthesisTools == {"piper", "espeak", "aplay", "paplay", "play"}
AfterTranscript == {"get", "post", "respond", "piper_text", "piper", "play_audio",
                    "piper_finally", "espeak"}

\* C1: in every cycle, response generation (an HTTP request) and speech
\* synthesis are reached only when the transcript returned by transcription
\* has a non-whitespace character; with an empty or whitespace-only
\* transcript the cycle ends at the no-speech message.
C1_BlankTranscriptSkips ==
    /\ (pc \in AfterTranscript \/ Tools(calls) \cap (GenerationTools \cup SynthesisTools) # {})
          => HasNonWhitespace(transcript)
    /\ ("you_said" \in printed /\ ~HasNonWhitespace(transcript))
          => /\ "no_speech" \in printed
             /\ ~InCycle
             /\ lastEnd = "no_speech"
             /\ response = "none"

\* a cycle whose recognizer ran and whose transcript was blank has ended
C1_Witness ==
    /\ Made(Call("whisper", "ok"))
    /\ "no_speech" \in printed
    /\ transcript = <<>>
    /\ calls[Len(calls)].tool = "whisper"

\* C2: process_with_ollama never raises; whenever the liveness request or
\* the generation request fails (exception or non-200 status) it returns one
\* of the fixed apology strings.
C2_NeverRaises ==
    /\ exc.origin # "process_with_ollama"
    /\ \A i \in DOMAIN calls :
          (calls[i].tool \in GenerationTools /\ calls[i].out # "200")
             => response \in Apologies

\* C3: the generation request is issued only right after a liveness request
\* that returned 200, at most once per call; when the liveness request is
\* unreachable or non-200 the connect apology is returned and no generation
\* request is issued.
C3_GenerateAfterLiveness ==
    /\ \A i \in DOMAIN calls :
          calls[i].tool = "POST" => (i > 1 /\ calls[i - 1] = Call("GET", "200"))
    /\ Cardinality({i \in DOMAIN calls : calls[i].tool = "POST"}) <= 1
    /\ Cardinality({i \in DOMAIN calls : calls[i].tool = "GET"}) <= 1
    /\ pc = "post" => calls[Len(calls)] = Call("GET", "200")
    /\ \A i \in DOMAIN calls :
          (calls[i].tool = "GET" /\ calls[i].out \in {"500", "ConnectionError"})
             => /\ response = ApologyConnect
                /\ ~Invoked("POST")
                /\ pc # "post"

\* the liveness request answered non-200 and the apology was returned
C3_Witness ==
    /\ Made(Call("GET", "500"))
    /\ response = ApologyConnect
    /\ pc = "respond"

\* C4 as stated: the farewell is printed only after an interrupt that
\* arrived between two cycles, so every cycle that started ran to its
\* normal end.
C4_InterruptOnlyBetweenCycles ==
    "farewell" \in printed => intrAt = "loop"

\* C4 amended: in continuous mode the interrupt stops the loop wherever it
\* arrives, between cycles or mid-cycle: once it has arrived no further
\* external program or request is invoked and no further stage of the cycle
\* is entered (only the cleanup of the piper backend still runs), the loop
\* ends and the farewell is printed; the farewell is printed in no other
\* case.
C4_InterruptStopsAnywhere ==
    /\ []("farewell" \in printed =>
            (continuous /\ pc = "exited" /\ exc = KeyboardInterrupt /\ intrAt # "none"))
    /\ []((continuous /\ intrAt # "none") => pc \in {"piper_finally", "unwind", "exited"})
    /\ []((continuous /\ intrAt # "none" /\ pc = "exited") => "farewell" \in printed)
    /\ [][intrAt # "none" => calls' = calls]_vars

\* the interrupt arrived while the generation request was in flight, and the
\* farewell was printed
C4_Witness ==
    /\ "farewell" \in printed
    /\ intrAt = "post"
    /\ calls[Len(calls)] = Call("GET", "200")

\* C5: when the transcription executable does not exist, transcribe_audio
\* raises FileNotFoundError without running the recognizer, the error leaves
\* run_assistant, and in that cycle no transcript is printed and neither
\* generation nor synthesis is invoked.
C5_MissingExecutableRaises ==
    exeFound = "no" =>
        /\ ~Invoked("whisper")
        /\ exc = Raised("FileNotFoundError", "transcribe_audio")
        /\ pc \in {"unwind", "crashed"}
        /\ lastEnd = "raised"
        /\ "you_said" \notin printed
        /\ Tools(calls) \cap (GenerationTools \cup SynthesisTools) = {}

\* the missing executable ended the program
C5_Witness ==
    /\ exeFound = "no"
    /\ pc = "crashed"
    /\ calls[Len(calls)].tool \in {"arecord", "rec"}

Recorders == {"arecord", "rec"}
RecorderCalls == SelectSeq(calls, LAMBDA c : c.tool \in Recorders)

\* C6: rec is invoked if and only if arecord was not found or exited with
\* an error; record_audio returns as soon as one recorder succeeds; when
\* both fail the failure of rec is raised to the caller; at most two
\* recorder invocations, arecord first.
C6_RecorderFallback ==
    /\ Len(RecorderCalls) <= 2
    /\ calls # <<>> => calls[1].tool = "arecord"
    /\ Invoked("rec") => (Failed(calls[1].out) /\ calls[2].tool = "rec")
    /\ (calls # <<>> /\ Failed(calls[1].out))
          => (pc = "rec" \/ intrAt = "rec" \/ Invoked("rec"))
    /\ \A i \in DOMAIN RecorderCalls :
          RecorderCalls[i].out = "ok" => (i = Len(RecorderCalls) /\ pc \notin Recorders)
    /\ "transcribing" \in printed
          => (RecorderCalls # <<>> /\ RecorderCalls[Len(RecorderCalls)].out = "ok")
    /\ (Len(RecorderCalls) = 2 /\ Failed(RecorderCalls[2].out))
          => /\ exc = Raised(ExcOf(RecorderCalls[2].out), "record_audio")
             /\ pc \in {"unwind", "crashed"}
             /\ "recording_error" \in printed
             /\ Len(calls) = 2
    /\ exc.origin = "record_audio"
          => (Len(RecorderCalls) = 2 /\ Failed(RecorderCalls[2].out))

\* arecord was not found, rec exited with an error, and that error is leaving
\* record_audio
C6_Witness ==
    /\ calls = <<Call("arecord", "notfound"), Call("rec", "error")>>
    /\ exc = Raised("CalledProcessError", "record_audio")
    /\ pc = "unwind"

PiperPcs == {"piper", "play_audio", "piper_finally"}

\* C7: on every exit path of _tts_piper after the temporary text file was
\* created (synthesis success, piper not found, piper error, no player
\* working) neither the text file nor tts_output.wav exists when the
\* function has finished: unless the interrupt cut the creation or the
\* cleanup short, the files exist only while _tts_piper is running.
C7_PiperCleansUp ==
    /\ (txtFile \/ wavFile) => (pc \in PiperPcs \/ intrAt \in {"piper_text", "piper_finally"})
    /\ (engine = "piper" /\ lastEnd = "tts_returned" /\ ~InCycle) => (~txtFile /\ ~wavFile)

\* _tts_piper has returned after piper exited with an error
C7_Witness ==
    /\ Made(Call("piper", "error"))
    /\ lastEnd = "tts_returned"
    /\ ~InCycle
    /\ intrAt = "none"
    /\ ~txtFile
    /\ ~wavFile

PlayerNames == {Players[i] : i \in DOMAIN Players}
PlayerCalls == SelectSeq(calls, LAMBDA c : c.tool \in PlayerNames)
PlayAudioFinished == Made(Call("piper", "ok")) /\ pc # "play_audio" /\ intrAt # "play_audio"

\* C8: play_audio tries aplay, paplay, play in that order; a player is
\* invoked only if every earlier one was not found or exited with an error;
\* nothing is invoked after the first success; when all three fail the
\* no-player message is printed and play_audio returns normally.
C8_PlayersInOrder ==
    /\ Len(PlayerCalls) <= 3
    /\ \A i \in DOMAIN PlayerCalls :
          /\ PlayerCalls[i].tool = <<"aplay", "paplay", "play">>[i]
          /\ i < Len(PlayerCalls) => Failed(PlayerCalls[i].out)
    /\ PlayerCalls # <<>> => Made(Call("piper", "ok"))
    /\ PlayAudioFinished
          => /\ PlayerCalls # <<>>
             /\ \/ PlayerCalls[Len(PlayerCalls)].out = "ok"
                \/ Len(PlayerCalls) = 3
             /\ calls[Len(calls)].tool \in PlayerNames
    /\ "no_player" \in printed
          <=> (Len(PlayerCalls) = 3 /\ Failed(PlayerCalls[3].out))
    /\ "no_player" \in printed
          => (exc.type \in {"none", "KeyboardInterrupt"} /\ "piper_error" \notin printed)

\* all three players failed and the cycle ended normally
C8_Witness ==
    /\ "no_player" \in printed
    /\ lastEnd = "tts_returned"
    /\ ~InCycle
    /\ Len(PlayerCalls) = 3

\* C9: text_to_speech never raises, whatever combination of not-found and
\* error outcomes piper, espeak and the players have, so a cycle that
\* reached synthesis ends normally; with an engine other than piper and
\* espeak the unsupported-engine message is printed and no external program
\* is invoked for synthesis.
C9_SynthesisNeverRaises ==
    /\ exc.origin # "text_to_speech"
    /\ ("converting" \in printed /\ ~InCycle /\ intrAt \in {"none", "loop"})
          => /\ lastEnd \in {"tts_returned", "unsupported"}
             /\ pc \in {ReturnTarget, "unwind", "exited"}
             /\ exc.type \in {"none", "KeyboardInterrupt"}
    /\ engine \notin {"piper", "espeak"}
          => /\ Tools(calls) \cap SynthesisTools = {}
             /\ pc \notin {"piper_text", "piper", "play_audio", "piper_finally", "espeak"}
             /\ "converting" \in printed
                   => ("unsupported_engine" \in printed /\ lastEnd = "unsupported")
    /\ "unsupported_engine" \in printed => engine \notin {"piper", "espeak"}

\* espeak exited with an error and the cycle ended normally
C9_Witness ==
    /\ engine = "espeak"
    /\ calls # <<>>
    /\ calls[Len(calls)] = Call("espeak", "error")
    /\ lastEnd = "tts_returned"
    /\ pc = ReturnTarget
    /\ exc = NoExc

Degraded == {"no_speech", "unsupported", "tts_returned"}

\* C10: in continuous mode a cycle that ends by a degraded or best-effort
\* outcome returns to the loop, which starts a new cycle (unless the
\* interrupt arrives first); an exception other than the interrupt that
\* leaves a cycle ends the program: no further cycle starts and the farewell
\* is not printed.
C10_LoopContinuesOrCrashes ==
    /\ [](pc = "crashed" => ("farewell" \notin printed /\ exc # NoExc))
    /\ []((continuous /\ pc = "loop") => ENABLED StartCycle)
    /\ []((continuous /\ pc = "loop" /\ cycles > 0) => lastEnd \in Degraded)
    /\ [][(continuous /\ InCycle /\ ~InCycle' /\ exc' = NoExc)
             => (pc' = "loop" /\ lastEnd' \in Degraded)]_vars
    /\ [][(continuous /\ pc = "loop" /\ exc' = NoExc)
             => (pc' = "arecord" /\ cycles' = Bump(cycles) /\ calls' = <<>>)]_vars
    /\ [][(pc = "unwind" /\ exc.type # "KeyboardInterrupt")
             => (pc' = "crashed" /\ printed' = printed)]_vars
    /\ [][pc # "crashed"]_vars

\* a cycle ended at the no-speech exit and the next cycle is running
C10_Witness ==
    /\ continuous
    /\ cycles = MaxCycles
    /\ lastEnd = "no_speech"
    /\ pc = "arecord"

=============================================================================
